---- MODULE Spec2Model ----
(***************************************************************************)
(* A model of the DS3231 driver: the software two-wire (USI) bus master of *)
(* twi.c and the register protocol / facade of ds3231.c, run against a     *)
(* DS3231 register file on the other end of the bus.                       *)
(*                                                                         *)
(* The clock chip and the USI peripheral are the environment.  The chip    *)
(* follows the register map written at the head of ds3231.c; the USI       *)
(* registers behave as the comments of twi.c say they do (a write of USICR *)
(* generates a clock edge, USIOIF reports the end of a shift, USISIF/USIPF *)
(* report a start/stop condition seen on the bus, USIDC a collision).      *)
(* Whether the chip acknowledges a byte, and which USISR flags are up when *)
(* the code samples them, are the environment's choice.                    *)
(***************************************************************************)
EXTENDS Integers, Sequences, FiniteSets, TLC

(***************************************************************************)
(* Program constants                                                       *)
(***************************************************************************)
READ_ADD  == 209      \* 0xD1
WRITE_ADD == 208      \* 0xD0
SECDR     == 0
AL1DR     == 7
AL2DR     == 11       \* 0x0B
CTRDR     == 14       \* 0x0E
STSDR     == 15       \* 0x0F
TMPDR     == 17       \* 0x11

ALARM_1      == 0
ALARM_2      == 1
ALARM_SEC    == 0
ALARM_SEC_M  == 1
ALARM_MIN_M  == 2
ALARM_HOUR_M == 3
ALARM_MDAY_M == 4
ALARM_WDAY_M == 5
ALARM_MIN    == 6

TWI_READ_BIT == 0
TWI_NACK_BIT == 0

TWI_NO_DATA           == 0
TWI_DATA_OUT_OF_BOUND == 1
TWI_UE_START_CON      == 2
TWI_UE_STOP_CON       == 3
TWI_UE_DATA_COL       == 4
TWI_NO_ACK_ON_DATA    == 5
TWI_NO_ACK_ON_ADDRESS == 6
TWI_MISSING_START_CON == 7
TWI_MISSING_STOP_CON  == 8

\* the DS3231 has the registers 0x00..0x12
RegCount == 19

(***************************************************************************)
(* Bounds of the model                                                     *)
(***************************************************************************)
\* operations called in one run of Spec
MaxOps == 1
\* operations called one after the other in one run of SpecSeq
MaxSeq == 2
\* bus faults in one run: bytes the chip does not acknowledge, USISR flags that
\* are not what the code expects when it samples them
MaxFaults == 4

(***************************************************************************)
(* 8-bit arithmetic                                                        *)
(***************************************************************************)
U8(x) == x % 256

RECURSIVE Pow2(_)
Pow2(k) == IF k = 0 THEN 1 ELSE 2 * Pow2(k - 1)

Bit(b, k) == (b \div Pow2(k)) % 2

RECURSIVE BitAndN(_, _, _)
BitAndN(a, b, n) ==
    IF n = 0 THEN 0
    ELSE (a % 2) * (b % 2) + 2 * BitAndN(a \div 2, b \div 2, n - 1)

\* a & b, a | b and ~a on uint8_t operands, the result stored in a uint8_t
AND8(a, b) == BitAndN(a, b, 8)
OR8(a, b)  == a + b - AND8(a, b)
NOT8(a)    == 255 - a

\* dec2bcd with the low digit taken modulo 16 instead of modulo 10
dec2bcd_mod16(d) == U8(((d \div 10) * 16) + (d % 16))

dec2bcd(d) == U8(((d \div 10) * 16) + (d % 10))

bcd2dec(b) == U8(((b \div 16) * 10) + (b % 16))

(***************************************************************************)
(* State                                                                   *)
(***************************************************************************)
VARIABLES
    regs,       \* the chip: its registers 0x00..0x12
    ptr,        \* the chip: its register pointer
    TWI_state,  \* union TWI_state, read as its errorState byte
    USIDR,      \* USI data register
    pins,       \* PORT_TWI bits of SDA and SCL, DDR_TWI bit of SDA; held: the bus
                \* keeps SCL low, PIN_TWI reads 0 though PORT_TWI released it
    tpc,        \* where TWI_start_transceiver_with_data stands
    ret,        \* its return value
    msgBuf,     \* the caller's buffer, msg points into it
    idx,        \* msg - msgBuf
    msgSize,    \* bytes left to transfer
    bus,        \* what this call put on the bus so far
    pulses,     \* clock pulses this call generated so far
    recorded,   \* the error this call stored in TWI_state.errorState
    fpc,        \* where the facade operation stands
    op,         \* the facade operation and its arguments
    rets,       \* what its transceive calls returned, in order
    result,     \* its return value
    _time,      \* struct time _time
    out,        \* the caller's variables the operation writes through
    prev,       \* the operation that ran before this one
    nops,       \* operations called so far
    limit,      \* operations the caller makes in this run
    faults      \* bus faults so far: bytes not acknowledged, flags not as expected

chipVars   == <<regs, ptr>>
lineVars   == <<USIDR, pins>>
frameVars  == <<tpc, ret, idx, msgSize, bus, pulses, recorded>>
facadeVars == <<fpc, op, rets, result, _time, out, prev, nops, limit>>
vars == <<regs, ptr, TWI_state, USIDR, pins, tpc, ret, msgBuf, idx, msgSize,
          bus, pulses, recorded, fpc, op, rets, result, _time, out, prev, nops, limit,
          faults>>

(***************************************************************************)
(* union TWI_state: avr-gcc lays bit-fields out from the least significant *)
(* bit, so addressMode is bit 0 and masterWrite bit 1 of errorState.       *)
(***************************************************************************)
addressMode(s) == Bit(s, 0)
masterWrite(s) == Bit(s, 1)
SetAddressMode(s, v) == s - Bit(s, 0) + v
SetMasterWrite(s, v) == s - 2 * Bit(s, 1) + 2 * v

TWI_get_state_info == TWI_state

(***************************************************************************)
(* The USI peripheral                                                      *)
(***************************************************************************)
USISR_FLAGS == {"USISIF", "USIPF", "USIDC"}

\* the 4-bit counter values of tempUSISR_8bit and tempUSISR_1bit
USICNT_8bit == 0
USICNT_1bit == 14

\* TWI_master_transfer: one pass of the loop makes a positive and a negative
\* SCL edge, the counter counts both and USIOIF rises when it overflows
TWI_master_transfer(cnt) == (16 - cnt) \div 2

(***************************************************************************)
(* The DS3231                                                              *)
(***************************************************************************)
Regs == 0 .. (RegCount - 1)

\* the only device on the bus answers to 0xD0 and 0xD1
ChipAddressed(a) == a \in {WRITE_ADD, READ_ADD}

\* a byte of a write transfer the chip acknowledged: the address byte selects the
\* chip, the first data byte is the register pointer, the others are stored
ChipWrite(i, b) ==
    IF i = 0 THEN UNCHANGED chipVars
    ELSE IF i = 1 THEN /\ ptr' = b % RegCount
                       /\ UNCHANGED regs
    ELSE /\ regs' = [regs EXCEPT ![ptr] = b]
         /\ ptr' = (ptr + 1) % RegCount

(***************************************************************************)
(* TWI_start_transceiver_with_data                                         *)
(***************************************************************************)
\* the call of TWI_start_transceiver_with_data(buf, n)
Transceive(buf, n) ==
    /\ msgBuf' = buf
    /\ msgSize' = n
    /\ idx' = 0
    /\ tpc' = "entry"
    /\ bus' = <<>>
    /\ pulses' = 0
    /\ recorded' = "none"
    /\ UNCHANGED <<ret, TWI_state, USIDR, pins, regs, ptr>>

\* the wait for the clock line with a way out when it stays low
SCL_wait_timesOut(p) == TRUE

\* while (!(PIN_TWI & (1 << PIN_TWI_SCL)));  is left when the line reads high
SCL_wait(p) == p.held = 0


\* TWI_return that leaves an error of an earlier call in the slot
TWI_return_keepsError(e, r, name) ==
    /\ TWI_state' = IF TWI_state = 0 THEN e ELSE TWI_state
    /\ ret' = r
    /\ recorded' = name
    /\ tpc' = "ret"

\* return (r) with errorState = e
TWI_return(e, r, name) ==
    /\ TWI_state' = e
    /\ ret' = r
    /\ recorded' = name
    /\ tpc' = "ret"

\* NackError with the test of addressMode left out
NackError_noAddressMode(s) == TWI_NO_ACK_ON_DATA

\* which error a not-acknowledged byte records
NackError(s) ==
    IF addressMode(s) = 1 THEN TWI_NO_ACK_ON_ADDRESS ELSE TWI_NO_ACK_ON_DATA

NackName(s) ==
    IF addressMode(s) = 1 THEN "TWI_NO_ACK_ON_ADDRESS" ELSE "TWI_NO_ACK_ON_DATA"

\* the faults in what the USI reports between the entry and the start condition
EntryFaults(flags, startSeen) ==
    IF msgSize <= 1 THEN 0
    ELSE IF flags # {} THEN 1
    ELSE IF ~startSeen THEN 1 ELSE 0

\* TWI_entry with the test of the buffer's length off by one: msgSize < 1
TWI_entry_sizeBelowOne ==
    /\ tpc = "entry"
    /\ \E flags \in SUBSET USISR_FLAGS, startSeen \in BOOLEAN :
         /\ EntryFaults(flags, startSeen) # 0 => faults < MaxFaults
         /\ flags # {} => startSeen
         /\ faults' = faults + EntryFaults(flags, startSeen)
         /\ LET s1 == SetAddressMode(0, 1)
                s2 == IF Bit(msgBuf[0], TWI_READ_BIT) = 0
                      THEN SetMasterWrite(s1, 1) ELSE s1
            IN
             IF msgSize < 1
             THEN /\ TWI_return(TWI_NO_DATA, 0, "TWI_NO_DATA")
                  /\ UNCHANGED <<pins, bus>>
             ELSE IF "USISIF" \in flags
             THEN /\ TWI_return(TWI_UE_START_CON, 0, "TWI_UE_START_CON")
                  /\ UNCHANGED <<pins, bus>>
             ELSE IF "USIPF" \in flags
             THEN /\ TWI_return(TWI_UE_STOP_CON, 0, "TWI_UE_STOP_CON")
                  /\ UNCHANGED <<pins, bus>>
             ELSE IF "USIDC" \in flags
             THEN /\ TWI_return(TWI_UE_DATA_COL, 0, "TWI_UE_DATA_COL")
                  /\ UNCHANGED <<pins, bus>>
             ELSE /\ SCL_wait(pins)
                  /\ pins' = [pins EXCEPT !.SCL = 0, !.SDA = 1]
                  /\ bus' = Append(bus, <<"START">>)
                  /\ IF ~startSeen
                     THEN TWI_return(TWI_MISSING_START_CON, 1, "TWI_MISSING_START_CON")
                     ELSE /\ TWI_state' = s2
                          /\ tpc' = "loop"
                          /\ UNCHANGED <<ret, recorded>>
    /\ UNCHANGED <<regs, ptr, USIDR, msgBuf, idx, msgSize, pulses>>
    /\ UNCHANGED facadeVars

\* from the entry to the start condition
TWI_entry ==
    /\ tpc = "entry"
    /\ \E flags \in SUBSET USISR_FLAGS, startSeen \in BOOLEAN :
         /\ EntryFaults(flags, startSeen) # 0 => faults < MaxFaults
         /\ flags # {} => startSeen
         /\ faults' = faults + EntryFaults(flags, startSeen)
         /\ LET s1 == SetAddressMode(0, 1)
                s2 == IF Bit(msgBuf[0], TWI_READ_BIT) = 0
                      THEN SetMasterWrite(s1, 1) ELSE s1
            IN
             IF msgSize <= 1
             THEN /\ TWI_return(TWI_NO_DATA, 0, "TWI_NO_DATA")
                  /\ UNCHANGED <<pins, bus>>
             ELSE IF "USISIF" \in flags
             THEN /\ TWI_return(TWI_UE_START_CON, 0, "TWI_UE_START_CON")
                  /\ UNCHANGED <<pins, bus>>
             ELSE IF "USIPF" \in flags
             THEN /\ TWI_return(TWI_UE_STOP_CON, 0, "TWI_UE_STOP_CON")
                  /\ UNCHANGED <<pins, bus>>
             ELSE IF "USIDC" \in flags
             THEN /\ TWI_return(TWI_UE_DATA_COL, 0, "TWI_UE_DATA_COL")
                  /\ UNCHANGED <<pins, bus>>
             ELSE /\ SCL_wait(pins)
                  /\ pins' = [pins EXCEPT !.SCL = 0, !.SDA = 1]
                  /\ bus' = Append(bus, <<"START">>)
                  /\ IF ~startSeen
                     THEN TWI_return(TWI_MISSING_START_CON, 1, "TWI_MISSING_START_CON")
                     ELSE /\ TWI_state' = s2
                          /\ tpc' = "loop"
                          /\ UNCHANGED <<ret, recorded>>
    /\ UNCHANGED <<regs, ptr, USIDR, msgBuf, idx, msgSize, pulses>>
    /\ UNCHANGED facadeVars

\* AfterAck with the return (false) of the not-acknowledged branch left out
AfterAck_noReturn(nack, size) == IF size # 0 THEN "loop" ELSE "stop"

\* where the write pass goes once the (N)ACK bit was clocked: return (false) on
\* a NACK, else the loop test  while (--msgSize)
AfterAck(nack, size) ==
    IF nack = 1 THEN "ret" ELSE IF size # 0 THEN "loop" ELSE "stop"

\* if (TWI_state.addressMode || TWI_state.masterWrite)
WritePass(s) == addressMode(s) = 1 \/ masterWrite(s) = 1

\* one pass of the do-while loop that writes a byte and clocks its (N)ACK
TWI_write_byte ==
    /\ tpc = "loop"
    /\ SCL_wait(pins)
    /\ WritePass(TWI_state)
    /\ \E nack \in (IF idx = 0 /\ ~ChipAddressed(msgBuf[0]) THEN {1} ELSE {0, 1}) :
         /\ (nack = 1 /\ ChipAddressed(msgBuf[0])) => faults < MaxFaults
         /\ faults' = IF nack = 1 /\ ChipAddressed(msgBuf[0]) THEN faults + 1 ELSE faults
         /\ bus' = Append(bus, <<"TX", msgBuf[idx], nack>>)
         /\ pulses' = pulses + TWI_master_transfer(USICNT_8bit)
                             + TWI_master_transfer(USICNT_1bit)
         /\ idx' = idx + 1
         /\ USIDR' = 255
         /\ pins' = [pins EXCEPT !.SCL = 0, !.DDR_SDA = 1]
         /\ IF nack = 1
            THEN /\ TWI_state' = NackError(TWI_state)
                 /\ ret' = 0
                 /\ recorded' = NackName(TWI_state)
                 /\ tpc' = AfterAck(nack, U8(msgSize - 1))
                 /\ UNCHANGED <<chipVars, msgSize>>
            ELSE /\ ChipWrite(idx, msgBuf[idx])
                 /\ TWI_state' = SetAddressMode(TWI_state, 0)
                 /\ msgSize' = U8(msgSize - 1)
                 /\ tpc' = AfterAck(nack, U8(msgSize - 1))
                 /\ UNCHANGED <<ret, recorded>>
    /\ UNCHANGED msgBuf
    /\ UNCHANGED facadeVars

\* TWI_read_byte with the last byte tested as msgSize = 0: every byte is acknowledged
TWI_read_byte_ackLast ==
    /\ tpc = "loop"
    /\ SCL_wait(pins)
    /\ ~WritePass(TWI_state)
    /\ LET mnack == IF msgSize = 0 THEN 1 ELSE 0
       IN  /\ msgBuf' = [msgBuf EXCEPT ![idx] = regs[ptr]]
           /\ bus' = Append(bus, <<"RX", regs[ptr], mnack>>)
    /\ ptr' = (ptr + 1) % RegCount
    /\ pulses' = pulses + TWI_master_transfer(USICNT_8bit)
                        + TWI_master_transfer(USICNT_1bit)
    /\ idx' = idx + 1
    /\ USIDR' = 255
    /\ pins' = [pins EXCEPT !.DDR_SDA = 1]
    /\ msgSize' = U8(msgSize - 1)
    /\ tpc' = IF U8(msgSize - 1) # 0 THEN "loop" ELSE "stop"
    /\ UNCHANGED <<regs, TWI_state, ret, recorded, faults>>
    /\ UNCHANGED facadeVars

\* one pass of the do-while loop that reads a byte and answers it
TWI_read_byte ==
    /\ tpc = "loop"
    /\ SCL_wait(pins)
    /\ ~WritePass(TWI_state)
    /\ LET mnack == IF msgSize = 1 THEN 1 ELSE 0
       IN  /\ msgBuf' = [msgBuf EXCEPT ![idx] = regs[ptr]]
           /\ bus' = Append(bus, <<"RX", regs[ptr], mnack>>)
    /\ ptr' = (ptr + 1) % RegCount
    /\ pulses' = pulses + TWI_master_transfer(USICNT_8bit)
                        + TWI_master_transfer(USICNT_1bit)
    /\ idx' = idx + 1
    /\ USIDR' = 255
    /\ pins' = [pins EXCEPT !.DDR_SDA = 1]
    /\ msgSize' = U8(msgSize - 1)
    /\ tpc' = IF U8(msgSize - 1) # 0 THEN "loop" ELSE "stop"
    /\ UNCHANGED <<regs, TWI_state, ret, recorded, faults>>
    /\ UNCHANGED facadeVars

\* TWI_master_stop with its result returned to the caller: return (TWI_master_stop())
TWI_master_stop_resultReturned ==
    /\ tpc = "stop"
    /\ SCL_wait(pins)
    /\ pins' = [pins EXCEPT !.SDA = 1, !.SCL = 1]
    /\ bus' = Append(bus, <<"STOP">>)
    /\ \E stopSeen \in BOOLEAN :
         IF stopSeen
         THEN /\ ret' = 1
              /\ tpc' = "ret"
              /\ UNCHANGED <<TWI_state, recorded, faults>>
         ELSE /\ faults < MaxFaults
              /\ faults' = faults + 1
              /\ TWI_return(TWI_MISSING_STOP_CON, 0, "TWI_MISSING_STOP_CON")
    /\ UNCHANGED <<regs, ptr, USIDR, msgBuf, idx, msgSize, pulses>>
    /\ UNCHANGED facadeVars

\* TWI_master_stop and the return (true) after it
TWI_master_stop ==
    /\ tpc = "stop"
    /\ SCL_wait(pins)
    /\ pins' = [pins EXCEPT !.SDA = 1, !.SCL = 1]
    /\ bus' = Append(bus, <<"STOP">>)
    /\ \E stopSeen \in BOOLEAN :
         IF stopSeen
         THEN /\ ret' = 1
              /\ tpc' = "ret"
              /\ UNCHANGED <<TWI_state, recorded, faults>>
         ELSE /\ faults < MaxFaults
              /\ faults' = faults + 1
              /\ TWI_return(TWI_MISSING_STOP_CON, 1, "TWI_MISSING_STOP_CON")
    /\ UNCHANGED <<regs, ptr, USIDR, msgBuf, idx, msgSize, pulses>>
    /\ UNCHANGED facadeVars

(***************************************************************************)
(* The caller: arguments, buffers and the variables written through         *)
(***************************************************************************)
\* struct time; year is a uint8_t, so a four-digit year is stored modulo 256
Tm(sec, min, hour, wday, mday, mon, year) ==
    [sec |-> sec, min |-> min, hour |-> hour, mday |-> mday, mon |-> mon,
     year |-> U8(year), wday |-> wday, am |-> FALSE, twelveHour |-> 0]

\* the times handed to ds3231_set_time, with their four-digit year
TimeInputs ==
    { [sec |-> 0,  min |-> 30, hour |-> 14, wday |-> 3, mday |-> 20, mon |-> 6,  year |-> 2024],
      [sec |-> 59, min |-> 59, hour |-> 23, wday |-> 7, mday |-> 31, mon |-> 12, year |-> 1999],
      [sec |-> 0,  min |-> 0,  hour |-> 0,  wday |-> 1, mday |-> 1,  mon |-> 1,  year |-> 2000] }

Modes == ALARM_SEC .. ALARM_MIN

\* the arguments handed to ds3231_set_alarm_s
AlarmInputs ==
    { [day |-> 15, hour |-> 6, min |-> 30, sec |-> 0, alarm |-> a, mode |-> m, intrpt |-> TRUE] :
         a \in {ALARM_1, ALARM_2}, m \in Modes }
    \cup
    { [day |-> 15, hour |-> 6, min |-> 30, sec |-> 0, alarm |-> a, mode |-> ALARM_MIN_M, intrpt |-> FALSE] :
         a \in {ALARM_1, ALARM_2} }
    \cup
    { [day |-> 5, hour |-> 9, min |-> 0, sec |-> 0, alarm |-> a, mode |-> m, intrpt |-> TRUE] :
         a \in {ALARM_1, ALARM_2}, m \in {ALARM_HOUR_M, ALARM_WDAY_M} }
    \cup
    { [day |-> 32, hour |-> 6,  min |-> 30, sec |-> 0,  alarm |-> 0, mode |-> ALARM_MDAY_M, intrpt |-> TRUE],
      [day |-> 15, hour |-> 24, min |-> 30, sec |-> 0,  alarm |-> 0, mode |-> ALARM_HOUR_M, intrpt |-> TRUE],
      [day |-> 15, hour |-> 6,  min |-> 60, sec |-> 0,  alarm |-> 1, mode |-> ALARM_MIN_M,  intrpt |-> FALSE],
      [day |-> 15, hour |-> 6,  min |-> 30, sec |-> 60, alarm |-> 0, mode |-> ALARM_SEC_M,  intrpt |-> TRUE],
      [day |-> 15, hour |-> 6,  min |-> 30, sec |-> 0,  alarm |-> 2, mode |-> ALARM_MIN_M,  intrpt |-> TRUE] }

\* the alarm selectors handed to the operations that take one
AlarmSelectors == {ALARM_1, ALARM_2, 2}

\* what the stack holds where a buffer is declared: msgBuf is never initialized
StackImages ==
    { [i \in 0 .. 8 |-> 0], [i \in 0 .. 8 |-> 255], [i \in 0 .. 8 |-> 17 * i] }

\* the image used where the code assigns every byte before it reads it: what the
\* stack held is never observed there
Unread == [i \in 0 .. 8 |-> 0]

\* a buffer of n bytes whose first bytes were assigned, the others left as they were
Buf(img, n, seq) == [i \in 0 .. (n - 1) |-> IF i < Len(seq) THEN seq[i + 1] ELSE img[i]]

ZeroTime == Tm(0, 0, 0, 0, 0, 0, 0)

\* the caller's variables before a call
CallerInit ==
    [time |-> ZeroTime, day |-> 0, hour |-> 0, min |-> 0, sec |-> 0, mode |-> 0,
     intrpt |-> FALSE, active |-> FALSE, i |-> 0, f |-> 0]

(***************************************************************************)
(* The facade: entering an operation, calling the transceiver, returning    *)
(***************************************************************************)
\* ErrorBranch testing for a return value of 0
ErrorBranch_onZero(r) == r = 0

\* the test every call site makes of the transceiver's return value:
\* if (TWI_start_transceiver_with_data(...)) { return (false); }
ErrorBranch(r) == r # 0

CanEnter ==
    /\ fpc \in {"idle", "done"}
    /\ nops < limit

Enter(name, args, o) ==
    /\ nops' = nops + 1
    /\ limit' = limit
    /\ prev' = IF fpc = "done"
               THEN [name |-> op.name, args |-> op.args, rets |-> rets, result |-> result]
               ELSE prev
    /\ op' = [name |-> name, args |-> args, pre |-> regs]
    /\ rets' = <<>>
    /\ result' = 0
    /\ out' = o

\* the first transceive call of an operation
FirstCall(name, args, o, buf, n) ==
    /\ Enter(name, args, o)
    /\ fpc' = "c1"
    /\ Transceive(buf, n)
    /\ UNCHANGED <<_time, faults>>

\* a later transceive call
NextCall(k, buf, n) ==
    /\ fpc' = k
    /\ rets' = Append(rets, ret)
    /\ Transceive(buf, n)
    /\ UNCHANGED <<op, result, prev, nops, limit, faults>>

\* return (r) after a transceive call
Finish(r) ==
    /\ fpc' = "done"
    /\ result' = r
    /\ rets' = Append(rets, ret)
    /\ tpc' = "idle"
    /\ UNCHANGED <<op, prev, nops, limit, faults, regs, ptr, TWI_state, USIDR, pins, ret,
                   msgBuf, idx, msgSize, bus, pulses, recorded>>

Resuming(name, k) ==
    /\ op.name = name
    /\ fpc = k
    /\ tpc = "ret"

(***************************************************************************)
(* ds3231_get_time                                                         *)
(***************************************************************************)
\* the decoding of the buffer read from registers 0x00..0x06
DecodeTime(b) ==
    LET hour    == bcd2dec(b[3])
        century == AND8(b[6], 128) \div 128
    IN  [sec  |-> bcd2dec(b[1]),
         min  |-> bcd2dec(b[2]),
         hour |-> hour,
         wday |-> bcd2dec(b[4]),
         mday |-> bcd2dec(b[5]),
         mon  |-> AND8(bcd2dec(b[6]), 31),
         year |-> IF century = 1 THEN U8(2000 + bcd2dec(b[7]))
                                 ELSE U8(1900 + bcd2dec(b[7])),
         twelveHour |-> IF hour = 0 THEN 0
                        ELSE IF hour < 12 THEN hour ELSE U8(hour - 12),
         am   |-> hour < 12]

ds3231_get_time_call ==
    /\ CanEnter
    /\ \E img \in StackImages :
         FirstCall("ds3231_get_time", <<>>, CallerInit,
                   Buf(img, 8, <<WRITE_ADD, SECDR>>), 2)

\* ds3231_get_time with the decoding placed before the test of the second transfer
ds3231_get_time_decodesBeforeTest ==
    /\ op.name = "ds3231_get_time"
    /\ tpc = "ret"
    /\ IF fpc = "c1"
       THEN IF ErrorBranch(ret)
            THEN Finish(0) /\ UNCHANGED <<_time, out>>
            ELSE /\ NextCall("c2", [msgBuf EXCEPT ![0] = READ_ADD], 8)
                 /\ UNCHANGED <<_time, out>>
       ELSE /\ _time' = DecodeTime(msgBuf)
            /\ IF ErrorBranch(ret)
               THEN Finish(0) /\ UNCHANGED out
               ELSE /\ out' = [out EXCEPT !.time = DecodeTime(msgBuf)]
                    /\ Finish(1)

ds3231_get_time ==
    /\ op.name = "ds3231_get_time"
    /\ tpc = "ret"
    /\ IF ErrorBranch(ret)
       THEN Finish(0) /\ UNCHANGED <<_time, out>>
       ELSE IF fpc = "c1"
       THEN /\ NextCall("c2", [msgBuf EXCEPT ![0] = READ_ADD], 8)
            /\ UNCHANGED <<_time, out>>
       ELSE /\ _time' = DecodeTime(msgBuf)
            /\ out' = [out EXCEPT !.time = DecodeTime(msgBuf)]
            /\ Finish(1)

(***************************************************************************)
(* ds3231_set_time                                                         *)
(***************************************************************************)
\* the century bit and the year ds3231_set_time leaves in the caller's struct
SetTimeCentury(t) == IF t.year > 2000 THEN 128 ELSE 0

SetTimeYear(t) == IF t.year > 2000 THEN U8(t.year - 2000) ELSE U8(t.year - 1900)

EncodeTime(t) ==
    <<WRITE_ADD, SECDR,
      dec2bcd(t.sec), dec2bcd(t.min), dec2bcd(t.hour), dec2bcd(t.wday),
      dec2bcd(t.mday), U8(dec2bcd(t.mon) + SetTimeCentury(t)),
      dec2bcd(SetTimeYear(t))>>

ds3231_set_time_call ==
    /\ CanEnter
    /\ \E a \in TimeInputs :
         LET t == Tm(a.sec, a.min, a.hour, a.wday, a.mday, a.mon, a.year)
         IN  FirstCall("ds3231_set_time", a,
                       [CallerInit EXCEPT !.time = [t EXCEPT !.year = SetTimeYear(t)]],
                       Buf(Unread, 9, EncodeTime(t)), 9)

ds3231_set_time ==
    /\ op.name = "ds3231_set_time"
    /\ tpc = "ret"
    /\ IF ErrorBranch(ret) THEN Finish(0) ELSE Finish(1)
    /\ UNCHANGED <<_time, out>>

(***************************************************************************)
(* ds3231_get_temp_int                                                     *)
(***************************************************************************)
ds3231_get_temp_int_call ==
    /\ CanEnter
    /\ \E img \in StackImages :
         FirstCall("ds3231_get_temp_int", <<>>, CallerInit,
                   Buf(img, 3, <<WRITE_ADD, TMPDR>>), 2)

ds3231_get_temp_int ==
    /\ op.name = "ds3231_get_temp_int"
    /\ tpc = "ret"
    /\ IF ErrorBranch(ret)
       THEN Finish(0) /\ UNCHANGED out
       ELSE IF fpc = "c1"
       THEN NextCall("c2", [msgBuf EXCEPT ![0] = READ_ADD], 3) /\ UNCHANGED out
       ELSE /\ out' = [out EXCEPT !.i = IF msgBuf[1] >= 128 THEN msgBuf[1] - 256
                                                          ELSE msgBuf[1],
                                  !.f = msgBuf[2] \div 64]
            /\ Finish(1)
    /\ UNCHANGED _time

(***************************************************************************)
(* ds3231_SQW_enable and ds3231_osc32kHz_enable                            *)
(***************************************************************************)
\* the control byte ds3231_SQW_enable writes back
SQW_bits(b, enable) == IF enable THEN AND8(OR8(b, 64), 251) ELSE AND8(b, 191)

\* the status byte ds3231_osc32kHz_enable writes back
Osc32kHz_bits(b, enable) == IF enable THEN OR8(b, 8) ELSE AND8(b, 247)

ds3231_SQW_enable_call ==
    /\ CanEnter
    /\ \E enable \in BOOLEAN :
         FirstCall("ds3231_SQW_enable", enable, CallerInit,
                   Buf(Unread, 3, <<WRITE_ADD, CTRDR>>), 2)

ds3231_SQW_enable ==
    /\ op.name = "ds3231_SQW_enable"
    /\ tpc = "ret"
    /\ IF ErrorBranch(ret) THEN Finish(0)
       ELSE IF fpc = "c1"
       THEN NextCall("c2", [msgBuf EXCEPT ![0] = READ_ADD], 2)
       ELSE IF fpc = "c2"
       THEN NextCall("c3", [msgBuf EXCEPT ![0] = WRITE_ADD,
                                          ![2] = SQW_bits(msgBuf[1], op.args),
                                          ![1] = CTRDR], 3)
       ELSE Finish(1)
    /\ UNCHANGED <<_time, out>>

ds3231_osc32kHz_enable_call ==
    /\ CanEnter
    /\ \E enable \in BOOLEAN :
         FirstCall("ds3231_osc32kHz_enable", enable, CallerInit,
                   Buf(Unread, 3, <<WRITE_ADD, STSDR>>), 2)

ds3231_osc32kHz_enable ==
    /\ op.name = "ds3231_osc32kHz_enable"
    /\ tpc = "ret"
    /\ IF ErrorBranch(ret) THEN Finish(0)
       ELSE IF fpc = "c1"
       THEN NextCall("c2", [msgBuf EXCEPT ![0] = READ_ADD], 2)
       ELSE IF fpc = "c2"
       THEN NextCall("c3", [msgBuf EXCEPT ![0] = WRITE_ADD,
                                          ![2] = Osc32kHz_bits(msgBuf[1], op.args),
                                          ![1] = STSDR], 3)
       ELSE Finish(1)
    /\ UNCHANGED <<_time, out>>

(***************************************************************************)
(* ds3231_reset_alarm                                                      *)
(***************************************************************************)
ds3231_reset_alarm_call ==
    /\ CanEnter
    /\ \E alarm \in AlarmSelectors :
         IF alarm = ALARM_1
         THEN FirstCall("ds3231_reset_alarm", alarm, CallerInit,
                        Buf(Unread, 6, <<WRITE_ADD, AL1DR, 0, 0, 0, 0>>), 6)
         ELSE FirstCall("ds3231_reset_alarm", alarm, CallerInit,
                        Buf(Unread, 5, <<WRITE_ADD, AL2DR, 0, 0, 0>>), 5)

ds3231_reset_alarm ==
    /\ op.name = "ds3231_reset_alarm"
    /\ tpc = "ret"
    /\ IF ErrorBranch(ret) THEN Finish(0) ELSE Finish(1)
    /\ UNCHANGED <<_time, out>>

(***************************************************************************)
(* ds3231_set_alarm_s                                                      *)
(***************************************************************************)
\* SetAlarmParamsOk with the test of hour left out
SetAlarmParamsOk_noHourTest(a) ==
    /\ ~(a.mode = ALARM_WDAY_M /\ a.day > 7)
    /\ ~(a.mode = ALARM_MDAY_M /\ a.day > 31)
    /\ ~(a.min > 59)
    /\ ~(a.sec > 59)
    /\ ~(a.alarm > 1)

\* the PARAM_VERIFICATION tests of ds3231_set_alarm_s
SetAlarmParamsOk(a) ==
    /\ ~(a.mode = ALARM_WDAY_M /\ a.day > 7)
    /\ ~(a.mode = ALARM_MDAY_M /\ a.day > 31)
    /\ ~(a.hour > 23)
    /\ ~(a.min > 59)
    /\ ~(a.sec > 59)
    /\ ~(a.alarm > 1)

\* return (false) before the buffer is declared
Reject(name, args) ==
    /\ Enter(name, args, CallerInit)
    /\ fpc' = "done"
    /\ UNCHANGED <<regs, ptr, TWI_state, USIDR, pins, tpc, ret, msgBuf, idx, msgSize,
                   bus, pulses, recorded, _time, faults>>

\* the control byte with the interrupt enable bit of the alarm set or cleared
IE_bits(b, alarm, intrpt) ==
    IF intrpt THEN OR8(b, Pow2(alarm)) ELSE AND8(b, NOT8(Pow2(alarm)))

\* EncodeAlarm with the hour's mask bit tested against ALARM_HOUR_M, one mode too far
EncodeAlarm_hourMaskOffByOne(a) ==
    LET m7(c) == IF c THEN 128 ELSE 0
        dy == OR8(OR8(dec2bcd(a.day), m7(a.mode <= ALARM_HOUR_M)),
                  IF a.mode = ALARM_WDAY_M THEN 64 ELSE 0)
    IN  IF a.alarm = ALARM_1
        THEN <<WRITE_ADD, AL1DR,
               OR8(dec2bcd(a.sec),  m7(a.mode = ALARM_SEC)),
               OR8(dec2bcd(a.min),  m7(a.mode <= ALARM_SEC_M)),
               OR8(dec2bcd(a.hour), m7(a.mode <= ALARM_HOUR_M)),
               dy>>
        ELSE <<WRITE_ADD, AL2DR,
               OR8(dec2bcd(a.min),  m7(a.mode = ALARM_MIN)),
               OR8(dec2bcd(a.hour), m7(a.mode <= ALARM_HOUR_M)),
               dy>>

\* the alarm registers, from the register address on
EncodeAlarm(a) ==
    LET m7(c) == IF c THEN 128 ELSE 0
        dy == OR8(OR8(dec2bcd(a.day), m7(a.mode <= ALARM_HOUR_M)),
                  IF a.mode = ALARM_WDAY_M THEN 64 ELSE 0)
    IN  IF a.alarm = ALARM_1
        THEN <<WRITE_ADD, AL1DR,
               OR8(dec2bcd(a.sec),  m7(a.mode = ALARM_SEC)),
               OR8(dec2bcd(a.min),  m7(a.mode <= ALARM_SEC_M)),
               OR8(dec2bcd(a.hour), m7(a.mode <= ALARM_MIN_M)),
               dy>>
        ELSE <<WRITE_ADD, AL2DR,
               OR8(dec2bcd(a.min),  m7(a.mode = ALARM_MIN)),
               OR8(dec2bcd(a.hour), m7(a.mode <= ALARM_MIN_M)),
               dy>>

AlarmBufLen(alarm) == IF alarm = ALARM_1 THEN 6 ELSE 5

ds3231_set_alarm_s_call ==
    /\ CanEnter
    /\ \E a \in AlarmInputs :
         IF SetAlarmParamsOk(a)
         THEN FirstCall("ds3231_set_alarm_s", a, CallerInit,
                        Buf(Unread, AlarmBufLen(a.alarm), <<WRITE_ADD, CTRDR>>), 2)
         ELSE Reject("ds3231_set_alarm_s", a)

ds3231_set_alarm_s ==
    /\ op.name = "ds3231_set_alarm_s"
    /\ tpc = "ret"
    /\ IF ErrorBranch(ret) THEN Finish(0)
       ELSE IF fpc = "c1"
       THEN NextCall("c2", [msgBuf EXCEPT ![0] = READ_ADD], 2)
       ELSE IF fpc = "c2"
       THEN NextCall("c3", [msgBuf EXCEPT ![0] = WRITE_ADD,
                              ![2] = IE_bits(msgBuf[1], op.args.alarm, op.args.intrpt),
                              ![1] = CTRDR], 3)
       ELSE IF fpc = "c3"
       THEN NextCall("c4", Buf(msgBuf, AlarmBufLen(op.args.alarm), EncodeAlarm(op.args)),
                     AlarmBufLen(op.args.alarm))
       ELSE Finish(1)
    /\ UNCHANGED <<_time, out>>

(***************************************************************************)
(* ds3231_get_alarm_s                                                      *)
(***************************************************************************)
\* *intrpt = (msgBuf[1] & ~(1 << alarm)), stored in a bool
AlarmEnabledBit(b, alarm) == AND8(b, NOT8(Pow2(alarm))) # 0

\* the mode, from the mask bits of the day, hour, minute and second bytes
DecodeMode(dy, hr, mn, finest) ==
    IF AND8(dy, 128) = 0
    THEN (IF AND8(dy, 64) = 0 THEN ALARM_MDAY_M ELSE ALARM_WDAY_M)
    ELSE IF AND8(hr, 128) = 0 THEN ALARM_HOUR_M
    ELSE IF AND8(mn, 128) = 0 THEN ALARM_MIN_M
    ELSE finest

DecodeDay(dy) == bcd2dec(AND8(dy, IF AND8(dy, 64) = 0 THEN 63 ELSE 15))


\* DecodeAlarm with the finest modes of the two alarms exchanged
DecodeAlarm_finestExchanged(o, b, alarm) ==
    IF alarm = ALARM_1
    THEN [o EXCEPT !.sec  = bcd2dec(AND8(b[1], 127)),
                   !.min  = bcd2dec(AND8(b[2], 127)),
                   !.hour = bcd2dec(AND8(b[3], 127)),
                   !.day  = DecodeDay(b[4]),
                   !.mode = DecodeMode(b[4], b[3], b[2], ALARM_MIN)]
    ELSE [o EXCEPT !.min  = bcd2dec(AND8(b[1], 127)),
                   !.hour = bcd2dec(AND8(b[2], 127)),
                   !.day  = DecodeDay(b[3]),
                   !.mode = DecodeMode(b[3], b[2], b[1],
                               IF AND8(b[1], 128) = 0 THEN ALARM_SEC_M ELSE ALARM_SEC)]

\* the caller's variables after the decoding of the alarm registers
DecodeAlarm(o, b, alarm) ==
    IF alarm = ALARM_1
    THEN [o EXCEPT !.sec  = bcd2dec(AND8(b[1], 127)),
                   !.min  = bcd2dec(AND8(b[2], 127)),
                   !.hour = bcd2dec(AND8(b[3], 127)),
                   !.day  = DecodeDay(b[4]),
                   !.mode = DecodeMode(b[4], b[3], b[2],
                               IF AND8(b[1], 128) = 0 THEN ALARM_SEC_M ELSE ALARM_SEC)]
    ELSE [o EXCEPT !.min  = bcd2dec(AND8(b[1], 127)),
                   !.hour = bcd2dec(AND8(b[2], 127)),
                   !.day  = DecodeDay(b[3]),
                   !.mode = DecodeMode(b[3], b[2], b[1], ALARM_MIN)]

ds3231_get_alarm_s_call ==
    /\ CanEnter
    /\ \E alarm \in AlarmSelectors, img \in StackImages :
         IF alarm > 1
         THEN Reject("ds3231_get_alarm_s", alarm)
         ELSE FirstCall("ds3231_get_alarm_s", alarm, CallerInit,
                        Buf(img, AlarmBufLen(alarm) - 1, <<WRITE_ADD, CTRDR>>), 2)

ds3231_get_alarm_s ==
    /\ op.name = "ds3231_get_alarm_s"
    /\ tpc = "ret"
    /\ IF ErrorBranch(ret) THEN Finish(0) /\ UNCHANGED out
       ELSE IF fpc = "c1"
       THEN NextCall("c2", [msgBuf EXCEPT ![0] = READ_ADD], 2) /\ UNCHANGED out
       ELSE IF fpc = "c2"
       THEN /\ out' = [out EXCEPT !.intrpt = AlarmEnabledBit(msgBuf[1], op.args)]
            /\ NextCall("c3", [msgBuf EXCEPT ![0] = WRITE_ADD,
                                 ![1] = IF op.args = ALARM_1 THEN AL1DR ELSE AL2DR], 2)
       ELSE IF fpc = "c3"
       THEN /\ NextCall("c4", [msgBuf EXCEPT ![0] = READ_ADD], AlarmBufLen(op.args) - 1)
            /\ UNCHANGED out
       ELSE /\ out' = DecodeAlarm(out, msgBuf, op.args)
            /\ Finish(1)
    /\ UNCHANGED _time

(***************************************************************************)
(* ds3231_check_alarm                                                      *)
(***************************************************************************)
\* *active = (msgBuf[1] & (1 << alarm)), stored in a bool
AlarmFlagBit(b, alarm) == AND8(b, Pow2(alarm)) # 0

\* msgBuf[0] = WRITE_ADD; msgBuf[0] = STSDR; msgBuf[1] is not assigned
CheckAlarmBuf(img) == Buf(img, 2, <<STSDR>>)

ds3231_check_alarm_call ==
    /\ CanEnter
    /\ \E alarm \in AlarmSelectors, img \in StackImages :
         IF alarm > 1
         THEN Reject("ds3231_check_alarm", alarm)
         ELSE FirstCall("ds3231_check_alarm", alarm, CallerInit, CheckAlarmBuf(img), 2)

ds3231_check_alarm ==
    /\ op.name = "ds3231_check_alarm"
    /\ tpc = "ret"
    /\ IF ErrorBranch(ret) THEN Finish(0) /\ UNCHANGED out
       ELSE /\ out' = [out EXCEPT !.active = AlarmFlagBit(msgBuf[1], op.args)]
            /\ Finish(1)
    /\ UNCHANGED _time

(***************************************************************************)
(* A caller of the transceiver itself                                      *)
(***************************************************************************)
\* the buffers handed to TWI_start_transceiver_with_data by its own callers
DirectMsgs ==
    { <<>>, <<WRITE_ADD>>, <<READ_ADD>>, <<WRITE_ADD, TMPDR>>, <<READ_ADD, 0>>,
      <<WRITE_ADD, AL1DR, 48, 21>>, <<READ_ADD, 0, 0, 0>> }

TWI_caller_call ==
    /\ CanEnter
    /\ \E m \in DirectMsgs :
         FirstCall("TWI_start_transceiver_with_data", m, CallerInit,
                   Buf(m, Len(m), m), Len(m))

TWI_caller_return ==
    /\ op.name = "TWI_start_transceiver_with_data"
    /\ tpc = "ret"
    /\ Finish(ret)
    /\ UNCHANGED <<_time, out>>

(***************************************************************************)
(* The clock line: open drain, any device on the bus can keep it low       *)
(***************************************************************************)
\* the bus starts to hold SCL low while a call is under way
SCL_hold ==
    /\ tpc \in {"entry", "loop", "stop"}
    /\ pins.held = 0
    /\ faults < MaxFaults
    /\ faults' = faults + 1
    /\ pins' = [pins EXCEPT !.held = 1]
    /\ UNCHANGED <<regs, ptr, TWI_state, USIDR, tpc, ret, msgBuf, idx, msgSize,
                   bus, pulses, recorded>>
    /\ UNCHANGED facadeVars

\* the bus lets SCL go
SCL_release ==
    /\ pins.held = 1
    /\ pins' = [pins EXCEPT !.held = 0]
    /\ UNCHANGED <<regs, ptr, TWI_state, USIDR, tpc, ret, msgBuf, idx, msgSize,
                   bus, pulses, recorded, faults>>
    /\ UNCHANGED facadeVars

(***************************************************************************)
(* dec2bcd and bcd2dec called on their own                                 *)
(***************************************************************************)
\* a call of a conversion function: it touches neither the bus nor the chip
PureCall(name, arg, r) ==
    /\ CanEnter
    /\ nops' = nops + 1
    /\ prev' = IF fpc = "done"
               THEN [name |-> op.name, args |-> op.args, rets |-> rets, result |-> result]
               ELSE prev
    /\ op' = [name |-> name, args |-> arg, pre |-> regs]
    /\ rets' = <<>>
    /\ result' = r
    /\ fpc' = "done"
    /\ UNCHANGED <<regs, ptr, TWI_state, USIDR, pins, tpc, ret, msgBuf, idx, msgSize,
                   bus, pulses, recorded, _time, out, limit, faults>>

\* dec2bcd(d) for any uint8_t d; the caller converts each value back before it
\* converts the next
dec2bcd_call ==
    /\ op.name # "dec2bcd"
    /\ \E d \in 0 .. 255 : PureCall("dec2bcd", d, dec2bcd(d))

\* bcd2dec applied to what dec2bcd returned
bcd2dec_call ==
    /\ fpc = "done"
    /\ op.name = "dec2bcd"
    /\ PureCall("bcd2dec", result, bcd2dec(result))

(***************************************************************************)
(* The specification                                                       *)
(***************************************************************************)
\* the chip's registers when the program starts
CtrlInit   == {28, 133}
StatusInit == {0, 137}

InitRegs ==
    { [r \in Regs |->
         IF r = CTRDR THEN c
         ELSE IF r = STSDR THEN st
         ELSE <<69, 89, 17, 2, 40, 130, 35, 0, 0, 0, 0, 0, 0, 0, 0, 0, 0, 25, 64>>[r + 1]] :
      c \in CtrlInit, st \in StatusInit }

Start ==
    /\ regs \in InitRegs
    /\ ptr = 0
    /\ TWI_state = 0
    /\ USIDR = 255
    /\ pins = [SCL |-> 1, SDA |-> 1, DDR_SDA |-> 1, held |-> 0]
    /\ tpc = "idle"
    /\ ret = 0
    /\ msgBuf = <<>>
    /\ idx = 0
    /\ msgSize = 0
    /\ bus = <<>>
    /\ pulses = 0
    /\ recorded = "none"
    /\ fpc = "idle"
    /\ op = [name |-> "none", args |-> <<>>, pre |-> regs]
    /\ rets = <<>>
    /\ result = 0
    /\ _time = ZeroTime
    /\ out = CallerInit
    /\ prev = [name |-> "none", args |-> <<>>, rets |-> <<>>, result |-> 0]
    /\ nops = 0
    /\ faults = 0

\* a run of one operation
Init == Start /\ limit = MaxOps

\* a run of operations called one after the other
InitSeq == Start /\ limit = MaxSeq

Next ==
    \/ TWI_entry
    \/ TWI_write_byte
    \/ TWI_read_byte
    \/ TWI_master_stop
    \/ ds3231_get_time_call
    \/ ds3231_get_time
    \/ ds3231_set_time_call
    \/ ds3231_set_time
    \/ ds3231_get_temp_int_call
    \/ ds3231_get_temp_int
    \/ ds3231_SQW_enable_call
    \/ ds3231_SQW_enable
    \/ ds3231_osc32kHz_enable_call
    \/ ds3231_osc32kHz_enable
    \/ ds3231_reset_alarm_call
    \/ ds3231_reset_alarm
    \/ ds3231_set_alarm_s_call
    \/ ds3231_set_alarm_s
    \/ ds3231_get_alarm_s_call
    \/ ds3231_get_alarm_s
    \/ ds3231_check_alarm_call
    \/ ds3231_check_alarm
    \/ TWI_caller_call
    \/ TWI_caller_return

Spec == Init /\ [][Next]_vars

SpecSeq == InitSeq /\ [][Next]_vars

\* the conversion functions alone
NextBcd ==
    \/ dec2bcd_call
    \/ bcd2dec_call

SpecBcd == InitSeq /\ [][NextBcd]_vars

\* a caller that sets one alarm after the other
NextAlarm ==
    \/ TWI_entry
    \/ TWI_write_byte
    \/ TWI_read_byte
    \/ TWI_master_stop
    \/ ds3231_set_alarm_s_call
    \/ ds3231_set_alarm_s

SpecAlarm == InitSeq /\ [][NextAlarm]_vars

\* a caller of TWI_start_transceiver_with_data alone
NextTWI ==
    \/ TWI_entry
    \/ TWI_write_byte
    \/ TWI_read_byte
    \/ TWI_master_stop
    \/ TWI_caller_call
    \/ TWI_caller_return
    \/ SCL_hold
    \/ SCL_release

SpecTWI == Init /\ [][NextTWI]_vars

\* a caller that reads the alarms
NextGetAlarm ==
    \/ TWI_entry
    \/ TWI_write_byte
    \/ TWI_read_byte
    \/ TWI_master_stop
    \/ ds3231_get_alarm_s_call
    \/ ds3231_get_alarm_s

SpecGetAlarm == Init /\ [][NextGetAlarm]_vars

\* a caller that sets and reads the time, reads the temperature and handles the
\* alarm flags
NextTime ==
    \/ TWI_entry
    \/ TWI_write_byte
    \/ TWI_read_byte
    \/ TWI_master_stop
    \/ ds3231_get_time_call
    \/ ds3231_get_time
    \/ ds3231_set_time_call
    \/ ds3231_set_time
    \/ ds3231_get_temp_int_call
    \/ ds3231_get_temp_int
    \/ ds3231_reset_alarm_call
    \/ ds3231_reset_alarm
    \/ ds3231_check_alarm_call
    \/ ds3231_check_alarm

SpecTime == InitSeq /\ [][NextTime]_vars

(***************************************************************************)
(* Properties                                                              *)
(***************************************************************************)
FacadeOps ==
    { "ds3231_get_time", "ds3231_set_time", "ds3231_get_temp_int", "ds3231_SQW_enable",
      "ds3231_osc32kHz_enable", "ds3231_reset_alarm", "ds3231_set_alarm_s",
      "ds3231_get_alarm_s", "ds3231_check_alarm" }

\* the operation has returned
Done(name) == fpc = "done" /\ op.name = name

\* the operation before this one
After(name) == prev.name = name

\* the chip acknowledged every byte and the USI reported every condition as expected
NoFault == faults = 0

\* the BCD of a two-digit number
BCD(d) == (d \div 10) * 16 + (d % 10)

\* differ(a, b): the bit positions in which two bytes differ
DifferingBits(a, b) == { k \in 0 .. 7 : Bit(a, k) # Bit(b, k) }

\* C1: a facade operation returns TRUE if and only if every transceive call it
\* issued returned 1, and FALSE whenever one of them returned 0.
C1_TrueIffEveryCallSucceeded ==
    (fpc = "done" /\ op.name \in FacadeOps /\ rets # <<>>)
        => (result = 1 <=> \A i \in 1 .. Len(rets) : rets[i] = 1)

\* C2: a call of TWI_start_transceiver_with_data that records an error of the
\* taxonomy returns 0.
C2_RecordedErrorReturnsZero ==
    (tpc = "ret" /\ recorded # "none") => ret = 0

\* C3: ds3231_set_time followed by ds3231_get_time, the chip acknowledging every
\* byte, yields the sec, min, hour, wday, mday, mon and year that were written.
C3_TimeRoundTrip ==
    (Done("ds3231_get_time") /\ After("ds3231_set_time") /\ NoFault)
        => /\ out.time.sec  = prev.args.sec
           /\ out.time.min  = prev.args.min
           /\ out.time.hour = prev.args.hour
           /\ out.time.wday = prev.args.wday
           /\ out.time.mday = prev.args.mday
           /\ out.time.mon  = prev.args.mon
           /\ out.time.year = prev.args.year

\* C4: ds3231_set_time writes the month register with bit 7 clear and the BCD of
\* year-1900 for a year in 1900..1999, with bit 7 set and the BCD of year-2000 for a
\* year in 2000..2099, and the ds3231_get_time after it reads the four-digit year back.
C4_CenturyRoundTrip ==
    /\ (Done("ds3231_set_time") /\ NoFault)
          => IF op.args.year < 2000
             THEN Bit(regs[5], 7) = 0 /\ regs[6] = BCD(op.args.year - 1900)
             ELSE Bit(regs[5], 7) = 1 /\ regs[6] = BCD(op.args.year - 2000)
    /\ (Done("ds3231_get_time") /\ After("ds3231_set_time") /\ NoFault)
          => out.time.year = prev.args.year

\* C5: for each of the seven modes and day=15, hour=6, min=30, sec=0,
\* ds3231_set_alarm_s followed by ds3231_get_alarm_s on the same slot, the chip
\* acknowledging every byte, returns the same mode, day, hour and minute, and the
\* same second for alarm 1.
C5_AlarmRoundTrip ==
    (/\ Done("ds3231_get_alarm_s") /\ After("ds3231_set_alarm_s") /\ NoFault
     /\ op.args \in {ALARM_1, ALARM_2} /\ prev.args.alarm = op.args
     /\ prev.args.day = 15 /\ prev.args.hour = 6 /\ prev.args.min = 30 /\ prev.args.sec = 0)
        => /\ out.mode = prev.args.mode
           /\ out.day  = 15
           /\ out.hour = 6
           /\ out.min  = 30
           /\ (op.args = ALARM_1 => out.sec = 0)

\* C6: after ds3231_SQW_enable the control register differs from the value it had
\* before the call in at most bit 6.
C6_SQWChangesOnlyBit6 ==
    Done("ds3231_SQW_enable") => DifferingBits(regs[CTRDR], op.pre[CTRDR]) \subseteq {6}

\* C7: once ds3231_get_alarm_s has stored *intrpt, it is true if and only if the
\* interrupt enable bit of the selected alarm is set in the control register; after
\* a ds3231_set_alarm_s of that alarm it is the intrpt that was set.
C7_InterruptEnabledIsTheBit ==
    /\ (op.name = "ds3231_get_alarm_s" /\ Len(rets) >= 2 /\ rets[2] = 0)
          => (out.intrpt <=> Bit(regs[CTRDR], op.args) = 1)
    /\ (/\ Done("ds3231_get_alarm_s") /\ After("ds3231_set_alarm_s") /\ NoFault
        /\ op.args \in {ALARM_1, ALARM_2} /\ prev.args.alarm = op.args)
          => out.intrpt = prev.args.intrpt

\* C8: ds3231_check_alarm addresses the device 0xD0/0xD1, reads its status
\* register and sets *active to true if and only if the flag of the selected alarm
\* is set in it.
C8_ActiveIsTheFlag ==
    (Done("ds3231_check_alarm") /\ op.args <= 1 /\ NoFault)
        => /\ Len(bus) >= 2 /\ bus[2][2] \in {WRITE_ADD, READ_ADD}
           /\ out.active <=> Bit(regs[STSDR], op.args) = 1

\* the j-th event of this call is a byte the remote device did not acknowledge
NotAcked(j) == j <= Len(bus) /\ bus[j][1] = "TX" /\ bus[j][3] = 1

\* C9: when the remote device does not acknowledge the address byte, the call
\* returns 0 with the last error TWI_NO_ACK_ON_ADDRESS, and neither sends nor
\* receives a data byte: the address byte and its (N)ACK bit are all it clocked.
C9_AddressNack ==
    NotAcked(2)
        => /\ tpc \in {"ret", "idle"}
           /\ ret = 0
           /\ TWI_get_state_info = TWI_NO_ACK_ON_ADDRESS
           /\ Len(bus) = 2
           /\ idx = 1
           /\ pulses = 9

C9_Witness ==
    /\ tpc = "ret"
    /\ NotAcked(2)
    /\ ChipAddressed(msgBuf[0])
    /\ msgSize >= 2

\* C10: when the remote device does not acknowledge the k-th data byte of a write
\* transfer, the call returns 0 with the last error TWI_NO_ACK_ON_DATA, and the
\* (N)ACK bit of that byte is the last clock pulse: the bytes after it are not sent.
C10_DataNack ==
    \A j \in 3 .. Len(bus) :
        NotAcked(j)
            => /\ tpc \in {"ret", "idle"}
               /\ ret = 0
               /\ TWI_get_state_info = TWI_NO_ACK_ON_DATA
               /\ Len(bus) = j
               /\ idx = j - 1
               /\ pulses = 9 * (j - 1)

C10_Witness ==
    /\ tpc = "ret"
    /\ NotAcked(4)
    /\ msgSize >= 2
    /\ Len(bus) = 4

\* the 12-hour fields of a struct time as the spec derives them from its hour
TwelveHourDerived(t) ==
    /\ t.twelveHour \in 0 .. 11
    /\ t.hour = 0 => (t.twelveHour = 0 /\ t.am)
    /\ t.hour \in 1 .. 11 => (t.twelveHour = t.hour /\ t.am)
    /\ t.hour \in 12 .. 23 => (t.twelveHour = t.hour - 12 /\ ~t.am)

\* C11: after a ds3231_get_time that returns success while the chip's hour is in
\* 0..23, the returned struct and _time have twelveHour and am derived from hour:
\* 0 gives (0, am), 1..11 gives (hour, am), 12..23 gives (hour-12, pm), so that
\* twelveHour is in 0..11.
C11_TwelveHourFields ==
    (Done("ds3231_get_time") /\ result = 1 /\ bcd2dec(regs[2]) \in 0 .. 23)
        => TwelveHourDerived(out.time) /\ TwelveHourDerived(_time)

\* C12: for every d in 0..99, dec2bcd(d) is (d/10)*16 + d%10 and at most 0x99, and
\* bcd2dec of it, (b/16)*10 + b%16, is d again.
C12_BcdRoundTrip ==
    /\ (Done("dec2bcd") /\ op.args \in 0 .. 99)
          => /\ result = ((op.args \div 10) * 16) + (op.args % 10)
             /\ result <= 153
    /\ (Done("bcd2dec") /\ After("dec2bcd") /\ prev.args \in 0 .. 99)
          => /\ result = ((op.args \div 16) * 10) + (op.args % 16)
             /\ result = prev.args

C12_Witness ==
    /\ Done("bcd2dec")
    /\ After("dec2bcd")
    /\ prev.args = 99
    /\ op.args = 153
    /\ result = 99

\* ds3231_set_alarm_s has written the alarm registers: every byte of its fourth
\* transfer was acknowledged
AlarmRegistersWritten ==
    /\ op.name = "ds3231_set_alarm_s"
    /\ fpc \in {"c4", "done"}
    /\ Len(rets) = (IF fpc = "c4" THEN 3 ELSE 4)
    /\ msgSize = 0

OutOfRange(a) ==
    \/ (a.mode = ALARM_WDAY_M /\ a.day > 7)
    \/ (a.mode = ALARM_MDAY_M /\ a.day > 31)
    \/ a.hour > 23
    \/ a.min > 59
    \/ a.sec > 59
    \/ a.alarm > 1

\* C14: a call of ds3231_set_alarm_s with an out-of-range input returns failure in
\* the step that enters it, without a transceive call: the bus lines, the chip's
\* registers and the last-error slot are what they were before the call.
C14_RejectedBeforeBus ==
    [][ (op'.name = "ds3231_set_alarm_s" /\ nops' = nops + 1 /\ OutOfRange(op'.args))
           => /\ fpc' = "done"
              /\ result' = 0
              /\ rets' = <<>>
              /\ UNCHANGED <<regs, ptr, TWI_state, USIDR, pins, tpc, bus, pulses, recorded>>
      ]_vars

C14_Witness ==
    /\ Done("ds3231_set_alarm_s")
    /\ OutOfRange(op.args)
    /\ result = 0
    /\ rets = <<>>
    /\ After("ds3231_set_alarm_s")
    /\ TWI_state = TWI_NO_ACK_ON_ADDRESS
    /\ pins.SCL = 0

\* the arguments pass the operation's parameter verification
InRange ==
    IF op.name = "ds3231_set_alarm_s" THEN ~OutOfRange(op.args)
    ELSE IF op.name \in {"ds3231_reset_alarm", "ds3231_get_alarm_s", "ds3231_check_alarm"}
    THEN op.args <= 1
    ELSE TRUE

\* every transceive call the operation issued returned 1
EveryTransferSucceeded == \A i \in 1 .. Len(rets) : rets[i] = 1

CallSites(name) ==
    IF name \in {"ds3231_set_alarm_s", "ds3231_get_alarm_s"} THEN 4
    ELSE IF name \in {"ds3231_SQW_enable", "ds3231_osc32kHz_enable"} THEN 3
    ELSE IF name \in {"ds3231_get_time", "ds3231_get_temp_int"} THEN 2
    ELSE 1

ErrorCode(name) ==
    CASE name = "TWI_NO_DATA"            -> TWI_NO_DATA
      [] name = "TWI_DATA_OUT_OF_BOUND"  -> TWI_DATA_OUT_OF_BOUND
      [] name = "TWI_UE_START_CON"       -> TWI_UE_START_CON
      [] name = "TWI_UE_STOP_CON"        -> TWI_UE_STOP_CON
      [] name = "TWI_UE_DATA_COL"        -> TWI_UE_DATA_COL
      [] name = "TWI_NO_ACK_ON_DATA"     -> TWI_NO_ACK_ON_DATA
      [] name = "TWI_NO_ACK_ON_ADDRESS"  -> TWI_NO_ACK_ON_ADDRESS
      [] name = "TWI_MISSING_START_CON"  -> TWI_MISSING_START_CON
      [] name = "TWI_MISSING_STOP_CON"   -> TWI_MISSING_STOP_CON
      [] OTHER                           -> 255

\* C16: when a call of TWI_start_transceiver_with_data has returned failure,
\* TWI_get_state_info is the code of the failure that aborted this call, whatever
\* the slot held before: no-data or a noise error when the call stopped before the
\* start condition, no-ack-on-address or no-ack-on-data when a byte was not
\* acknowledged.
C16_LastErrorIsThisCalls ==
    (tpc = "ret" /\ ret = 0)
        => /\ recorded # "none"
           /\ TWI_get_state_info = ErrorCode(recorded)
           /\ bus = <<>> \/ NotAcked(Len(bus))
           /\ (bus = <<>> /\ msgSize <= 1) => TWI_get_state_info = TWI_NO_DATA
           /\ (bus = <<>> /\ msgSize > 1)
                 => TWI_get_state_info \in {TWI_UE_START_CON, TWI_UE_STOP_CON, TWI_UE_DATA_COL}
           /\ NotAcked(2) => TWI_get_state_info = TWI_NO_ACK_ON_ADDRESS
           /\ (Len(bus) > 2 /\ NotAcked(Len(bus))) => TWI_get_state_info = TWI_NO_ACK_ON_DATA

\* the third call of ds3231_SQW_enable fails on a data byte; the call before it, a
\* read transfer that failed, left a noise error or no-ack-on-address in the slot
C16_Witness ==
    /\ op.name = "ds3231_SQW_enable"
    /\ fpc = "c3"
    /\ rets = <<0, 0>>
    /\ tpc = "ret"
    /\ ret = 0
    /\ TWI_get_state_info = TWI_NO_ACK_ON_DATA

C18_NoCallAfterFailure ==
    (op.name \in FacadeOps /\ fpc \in {"c1", "c2", "c3", "c4", "done"})
        => \A i \in 1 .. Len(rets) :
              rets[i] = 0 => (fpc = "done" /\ i = Len(rets))

\* the call in progress is a read transfer whose address byte was acknowledged
ReadAddressed ==
    /\ tpc \in {"loop", "stop", "ret"}
    /\ Len(bus) >= 2
    /\ bus[2][1] = "TX"
    /\ Bit(bus[2][2], TWI_READ_BIT) = 1
    /\ bus[2][3] = 0

\* C19: in a read transfer of length n = idx + msgSize whose address byte was
\* acknowledged, only bytes are clocked in after the address, the k-th of them into
\* buffer[k]; the master answers each with acknowledge (0, data line low) except
\* the (n-1)-th and last, which it answers with not-acknowledge (1, data line
\* high); when the transfer is through, n-1 bytes were clocked in.
C19_ReadAcksAllButLast ==
    ReadAddressed
        => LET n == idx + msgSize
           IN  /\ \A j \in 3 .. Len(bus) :
                     /\ bus[j][1] \in {"RX", "STOP"}
                     /\ bus[j][1] = "RX"
                           => /\ msgBuf[j - 2] = bus[j][2]
                              /\ bus[j][3] = (IF j = n + 1 THEN 1 ELSE 0)
               /\ tpc \in {"stop", "ret"}
                     => /\ idx = n
                        /\ \A j \in 3 .. (n + 1) : j <= Len(bus) /\ bus[j][1] = "RX"

C19_Witness ==
    /\ ReadAddressed
    /\ op.name = "TWI_start_transceiver_with_data"
    /\ op.args = <<READ_ADD, 0, 0, 0>>
    /\ tpc = "ret"
    /\ Len(bus) = 6
    /\ bus[3][3] = 0
    /\ bus[4][3] = 0
    /\ bus[5][3] = 1
    /\ msgBuf[1] = regs[0]
    /\ msgBuf[3] = regs[2]

\* C20: when a call of TWI_start_transceiver_with_data of length n = idx + msgSize
\* has returned success, the bus saw one start condition, then n bytes, the
\* address byte first, each with its one (N)ACK bit (nine clock pulses a byte), then
\* one stop condition, and no start or stop condition between the bytes.
C20_StartBytesStop ==
    (tpc = "ret" /\ ret = 1)
        => LET n == idx + msgSize
           IN  /\ Len(bus) = n + 2
               /\ bus[1] = <<"START">>
               /\ bus[n + 2] = <<"STOP">>
               /\ \A j \in 2 .. (n + 1) : bus[j][1] \in {"TX", "RX"}
               /\ bus[2][1] = "TX"
               /\ pulses = 9 * n

\* C21: when a call of TWI_start_transceiver_with_data has returned failure, it
\* drove no stop condition: the transfer was abandoned where it failed, with the
\* clock line still held low if the start condition had been sent.
C21_NoStopOnFailure ==
    (tpc = "ret" /\ ret = 0)
        => /\ \A j \in 1 .. Len(bus) : bus[j][1] # "STOP"
           /\ bus # <<>> => pins.SCL = 0

C21_Witness ==
    /\ tpc = "ret"
    /\ ret = 0
    /\ Len(bus) = 3
    /\ NotAcked(3)
    /\ msgSize >= 2
    /\ pins.SCL = 0

\* the mode the spec derives from the alarm registers of a slot, the coarsest
\* register first
ModeOfRegisters(alarm) ==
    LET day  == IF alarm = ALARM_1 THEN regs[AL1DR + 3] ELSE regs[AL2DR + 2]
        hour == IF alarm = ALARM_1 THEN regs[AL1DR + 2] ELSE regs[AL2DR + 1]
        min  == IF alarm = ALARM_1 THEN regs[AL1DR + 1] ELSE regs[AL2DR]
    IN  IF Bit(day, 7) = 0
        THEN (IF Bit(day, 6) = 0 THEN ALARM_MDAY_M ELSE ALARM_WDAY_M)
        ELSE IF Bit(hour, 7) = 0 THEN ALARM_HOUR_M
        ELSE IF Bit(min, 7) = 0 THEN ALARM_MIN_M
        ELSE IF alarm = ALARM_2 THEN ALARM_MIN
        ELSE IF Bit(regs[AL1DR], 7) = 0 THEN ALARM_SEC_M
        ELSE ALARM_SEC

\* C22: the mode ds3231_get_alarm_s returns with success is the one the mask bits
\* of the slot's registers give, inspected from the day register to the finest:
\* date or weekday match by bit 6 when the day mask is clear, else hours match,
\* else minutes match, else seconds match or per second for alarm 1 and once per
\* minute for alarm 2.
C22_ModeFromMaskBits ==
    (Done("ds3231_get_alarm_s") /\ op.args \in {ALARM_1, ALARM_2} /\ result = 1)
        => out.mode = ModeOfRegisters(op.args)

\* C23: ds3231_set_alarm_s changes in the control register at most the interrupt
\* enable bit of the selected alarm, bit 0 for ALARM_1 and bit 1 for ALARM_2, every
\* other bit keeping the value it had; when it has returned success that bit is set
\* if intrpt is true and clear if it is false.
C23_OnlyTheEnableBit ==
    (op.name = "ds3231_set_alarm_s" /\ ~OutOfRange(op.args))
        => /\ DifferingBits(regs[CTRDR], op.pre[CTRDR]) \subseteq {op.args.alarm}
           /\ (fpc = "done" /\ result = 1)
                 => Bit(regs[CTRDR], op.args.alarm) = (IF op.args.intrpt THEN 1 ELSE 0)

\* C24: a step changes _time only when it is the return of a ds3231_get_time with
\* success, which leaves the caller's struct equal to the new _time; the return of
\* a ds3231_get_time with failure changes neither _time nor the caller's struct,
\* and no step of another operation changes _time.
C24_TimeOnlyBySuccessfulGetTime ==
    [][ /\ (_time' # _time)
              => /\ op.name = "ds3231_get_time"
                 /\ fpc # "done" /\ fpc' = "done"
                 /\ result' = 1
                 /\ out'.time = _time'
        /\ (op.name = "ds3231_get_time" /\ fpc # "done" /\ fpc' = "done" /\ result' = 1)
              => out'.time = _time'
        /\ (op.name = "ds3231_get_time" /\ fpc # "done" /\ fpc' = "done" /\ result' = 0)
              => (_time' = _time /\ out' = out)
      ]_vars

\* a second ds3231_get_time has failed after one that succeeded: _time and the
\* caller's struct differ, _time keeps what the first call stored
C24_Witness ==
    /\ Done("ds3231_get_time")
    /\ result = 0
    /\ After("ds3231_get_time")
    /\ prev.result = 1
    /\ _time # ZeroTime
    /\ out.time = ZeroTime

\* the checks at the head of TWI_start_transceiver_with_data rejected the call
RejectedAtEntry ==
    /\ tpc = "entry"
    /\ tpc' = "ret"
    /\ ret' = 0
    /\ TWI_state' \in {TWI_NO_DATA, TWI_UE_START_CON, TWI_UE_STOP_CON, TWI_UE_DATA_COL}
    /\ bus' = bus

\* C25: as long as the bus holds the clock line low, a call under way neither
\* returns nor records an error nor puts anything on the bus, unless the checks
\* at its head reject it: the waits for the clock line have no way out.
C25_HangsWhileClockLow ==
    [][ ( /\ pins.held = 1
          /\ pins'.held = 1
          /\ tpc \in {"entry", "loop", "stop"}
          /\ <<tpc, ret, TWI_state, recorded, bus, pulses>>'
                # <<tpc, ret, TWI_state, recorded, bus, pulses>> )
        => RejectedAtEntry
      ]_vars

\* the clock line is held low after the address byte of a call was acknowledged
C25_Witness ==
    /\ pins.held = 1
    /\ tpc = "loop"
    /\ Len(bus) = 2
    /\ ~NotAcked(2)
    /\ recorded = "none"

\* C26: the month ds3231_get_time stores is the BCD value of bits 4..0 of the
\* month byte it decoded, whatever bits 7..5 of that byte are.
C26_MonthIgnoresCentury ==
    ( /\ Done("ds3231_get_time")
      /\ result = 1
      /\ bcd2dec(AND8(msgBuf[6], 31)) \in 1 .. 12 )
        => out.time.mon = bcd2dec(AND8(msgBuf[6], 31))

\* the failure codes of twi.h
FailureCodes ==
    {TWI_NO_DATA, TWI_DATA_OUT_OF_BOUND, TWI_UE_START_CON, TWI_UE_STOP_CON,
     TWI_UE_DATA_COL, TWI_NO_ACK_ON_DATA, TWI_NO_ACK_ON_ADDRESS,
     TWI_MISSING_START_CON, TWI_MISSING_STOP_CON} \cap (1 .. 8)

\* C27: after a call that ran to its end without recording an error,
\* TWI_get_state_info returns none of the failure codes 0x01..0x08.
C27_SuccessReadsNoFailureCode ==
    (tpc = "ret" /\ ret = 1 /\ recorded = "none")
        => TWI_state \notin FailureCodes

\* the modes an alarm can be in
ValidModes(alarm) ==
    IF alarm = ALARM_1
    THEN {ALARM_SEC, ALARM_SEC_M, ALARM_MIN_M, ALARM_HOUR_M, ALARM_MDAY_M, ALARM_WDAY_M}
    ELSE {ALARM_MIN, ALARM_MIN_M, ALARM_HOUR_M, ALARM_MDAY_M, ALARM_WDAY_M}

\* register bytes with every value of the mask bit 7 and of the DY/DT bit 6
MaskBytes == {hi * 64 : hi \in 0 .. 3}

\* C28: the mode ds3231_get_alarm_s stores is one of the modes of the alarm it
\* was asked for, and so is the mode its decoding gives for every other value
\* of the mask and DY/DT bits of the bytes it reads.
C28_ModeValidForAlarm ==
    (Done("ds3231_get_alarm_s") /\ op.args \in {ALARM_1, ALARM_2})
        => /\ result = 1 => out.mode \in ValidModes(op.args)
           /\ \A b1 \in MaskBytes, b2 \in MaskBytes, b3 \in MaskBytes, b4 \in MaskBytes :
                DecodeAlarm(CallerInit, <<b1, b2, b3, b4>>, op.args).mode
                    \in ValidModes(op.args)

\* ds3231_get_alarm_s has decoded, for alarm 1, a buffer with the mask bits of
\* day, hour and minute set
C28_Witness ==
    /\ Done("ds3231_get_alarm_s")
    /\ op.args = ALARM_1
    /\ result = 1
    /\ \A i \in 2 .. 4 : AND8(msgBuf[i], 128) # 0
    /\ out.mode \in {ALARM_SEC, ALARM_SEC_M}

====
